---- MODULE Spec2Model ----
(***************************************************************************)
(* A model of package log (adrianpk/log): the write-once global            *)
(* configuration, the logger instances, the severity gate, the field       *)
(* composer and the context binder.                                        *)
(***************************************************************************)
EXTENDS Integers, Sequences, FiniteSets, TLC

VARIABLES cfg, heap, Default, ctxs, last, stdW, errW, pc, loc

vars == <<cfg, heap, Default, ctxs, last, stdW, errW, pc, loc>>

(***************************************************************************)
(* Bounds of the model.                                                    *)
(***************************************************************************)
\* Number of Logger instances that may be allocated (Default included).
MaxLoggers == 3
\* Number of contexts derived from the background context.
MaxCtx == 2
\* Number of Logger instances in the study of dynamic fields (Default included).
MaxDynaLoggers == 2
\* Number of AddDyna calls on one instance.
MaxAdd == 1
\* Length of the message-field lists in the study of the composer.
MaxFields == 3
\* Goroutines racing on construction.
NThreads == 2
\* Levels handed to the constructors and to UpdateLogLevel: -(BelowRange)..AboveRange.
BelowRange == 2
AboveRange == 5

(***************************************************************************)
(* const.go: the level constants.  Within one const block iota is the      *)
(* index of the line, so Debug (second line) is 1, and Info, Warn, Error   *)
(* repeat the expression on the third to fifth lines.                      *)
(***************************************************************************)
iota(line) == line - 1

Disabled == -1
Debug == iota(2)
Info == iota(3)
Warn == iota(4)
Error == iota(5)

(***************************************************************************)
(* zerolog levels, as named by setLogLevel; a zerolog.Logger starts at the *)
(* most verbose level.                                                     *)
(***************************************************************************)
ZDebug == 0
ZInfo == 1
ZWarn == 2
ZError == 3
ZDisabled == 7

\* zerolog.New(w) / log.Output(w): the level of a fresh zerolog.Logger.
ZNew == ZDebug

\* l.StdLog.Info() / l.ErrLog.Error(): the event is enabled unless the
\* zerolog.Logger's own level is above the event's.
ZEnabled(z, lvl) == lvl >= z

(***************************************************************************)
(* Values of type interface{}.  Every value is a tuple starting with its   *)
(* dynamic type.  A Go string is modelled as the sequence of its pieces,   *)
(* so that the rendering of a slice can be built.                          *)
(***************************************************************************)
NIL == <<"nil">>
S(x) == <<"string", x>>
I(n) == <<"int", n>>
B(b) == <<"bool", b>>
\* A non-nil error value; a nil error is NIL.
E(x) == <<"error", x>>

Digit(n) ==
    CASE n = 0 -> "0" [] n = 1 -> "1" [] n = 2 -> "2" [] n = 3 -> "3"
      [] n = 4 -> "4" [] n = 5 -> "5" [] n = 6 -> "6" [] n = 7 -> "7"
      [] n = 8 -> "8" [] n = 9 -> "9"

\* fmt.Sprintf("%d", v), one piece per character.
RECURSIVE Decimal(_)
Decimal(n) ==
    IF n < 0 THEN <<"-">> \o Decimal(0 - n)
    ELSE IF n < 10 THEN <<Digit(n)>>
    ELSE Decimal(n \div 10) \o <<Digit(n % 10)>>

\* stringify of a value that is not a slice.
stringifyAtom(v) ==
    CASE v[1] = "nil" -> <<"<nil>">>
      [] v[1] = "int" -> Decimal(v[2])
      [] v[1] = "bool" -> IF v[2] THEN <<"true">> ELSE <<"false">>
      [] v[1] = "string" -> <<v[2]>>

\* The elements of a slice rendered by %+v: separated by one space.
RECURSIVE Joined(_)
Joined(vs) ==
    IF vs = <<>> THEN <<>>
    ELSE IF Len(vs) = 1 THEN stringifyAtom(vs[1])
    ELSE stringifyAtom(vs[1]) \o <<" ">> \o Joined(Tail(vs))

\* A slice value ([]interface{} or []string) passed as one interface{}.
Slice(vs) == <<"slice", <<"[">> \o Joined(vs) \o <<"]">>>>

stringify(v) ==
    IF v[1] = "slice" THEN v[2] ELSE stringifyAtom(v)

(***************************************************************************)
(* appendKeyValues: the walk over one list, and the three walks.           *)
(***************************************************************************)
Put(fs, k, v) == [x \in DOMAIN fs \cup {k} |-> IF x = k THEN v ELSE fs[x]]

EmptyMap == [x \in {} |-> NIL]

\* for i := 0; i < len(list)-1; i++ { if both non-nil { fs[k] = v; i++ } }
\* (i is the 1-based position here).
RECURSIVE Walk(_, _, _)
Walk(list, i, fs) ==
    IF i >= Len(list) THEN fs
    ELSE IF list[i] # NIL /\ list[i + 1] # NIL
         THEN Walk(list, i + 2, Put(fs, stringify(list[i]), list[i + 1]))
         ELSE Walk(list, i + 1, fs)

WalkIfPairs(list, fs) == IF Len(list) > 1 THEN Walk(list, 1, fs) ELSE fs

\* The map handed to le.Fields.
appendKeyValues(c, dynafields, fields) ==
    IF Len(fields) > 1
    THEN WalkIfPairs(c.stfields, WalkIfPairs(dynafields, Walk(fields, 1, EmptyMap)))
    ELSE EmptyMap

\* le.Str("name", cfg.name) when the name is not empty.
NameOf(c) == IF c.name # "" THEN <<c.name>> ELSE <<>>

(***************************************************************************)
(* The package state.                                                      *)
(*   cfg      the global config (part_000: var cfg config)                 *)
(*   heap     the Logger instances allocated so far; a *Logger is an index *)
(*   Default  the package default logger (a *Logger)                       *)
(*   ctxs     the contexts derived from context.Background(); context 0 is *)
(*            the background context                                       *)
(*   last     the call that ran last: its name, arguments and results      *)
(*   stdW     the records the last call wrote through a StdLog             *)
(*   errW     the records the last call wrote through an ErrLog            *)
(*   pc, loc  position and locals of each goroutine inside a constructor   *)
(***************************************************************************)
Threads == 1..NThreads

NoValue == [type |-> "none", ref |-> 0]
\* The value InCtx stores under loggerCtxKey: a *Logger.
PtrValue(l) == [type |-> "*Logger", ref |-> l]

NoLast ==
    [op |-> "init", l |-> 0, ctx |-> 0, level |-> 0, args |-> <<>>,
     err |-> NIL, ret |-> 0, ok |-> FALSE, fresh |-> FALSE, prev |-> <<>>]

NoLoc == [name |-> "", st |-> <<>>, l |-> 0, rd |-> <<>>, wrote |-> FALSE]

\* if level < Disabled || level > Error { level = Info }
CoerceLevel(level) == IF level < Disabled \/ level > Error THEN Info ELSE level

\* setLogLevel(&stdl, level): zerolog's Logger.Level returns the changed
\* copy, which is dropped, so the zerolog.Logger z is left as it was.
setLogLevel_applied(z, level) ==
    CASE level = -1 -> ZDisabled
      [] level = 0 -> ZDebug
      [] level = 1 -> ZInfo
      [] level = 2 -> ZWarn
      [] level = 3 -> ZError
      [] OTHER -> ZDebug

setLogLevel(z, level) == z

\* l := &Logger{Level: level, StdLog: stdl, ErrLog: errl}
NewInstance(kind, level) ==
    [Level |-> level, out |-> kind,
     StdLog |-> setLogLevel(ZNew, level), ErrLog |-> setLogLevel(ZNew, level),
     dynafields |-> <<>>]

\* setup(name, stfields)
setup(c, name, stfields) ==
    IF c.configured THEN c
    ELSE [c EXCEPT !.name = name, !.stfields = @ \o stfields, !.configured = TRUE]

newGlobal_ungated(c, name, stfields) ==
    IF Len(stfields) > 1
    THEN [c EXCEPT !.name = name, !.stfields = @ \o stfields, !.configured = TRUE]
    ELSE c

\* if len(stfields) > 1 && !cfg.configured { setup(name, stfields) ... }
newGlobal(c, name, stfields) ==
    IF Len(stfields) > 1 /\ ~c.configured THEN setup(c, name, stfields) ELSE c

newDefault_anyArgs(c, stfields, l, d) ==
    IF Len(stfields) > 0 /\ ~c.configured THEN l ELSE d

newDefault_anyTime(c, stfields, l, d) ==
    IF Len(stfields) > 1 THEN l ELSE d

\* if len(stfields) > 1 && !cfg.configured { ...; Default = l }
newDefault(c, stfields, l, d) ==
    IF Len(stfields) > 1 /\ ~c.configured THEN l ELSE d

Init ==
    /\ cfg = [name |-> "", level |-> 0, stfields |-> <<>>, configured |-> FALSE]
    /\ heap = <<NewInstance("json", CoerceLevel(Debug))>>
    /\ Default = 1
    /\ ctxs = <<>>
    /\ last = NoLast
    /\ stdW = <<>>
    /\ errW = <<>>
    /\ pc = [t \in Threads |-> "idle"]
    /\ loc = [t \in Threads |-> NoLoc]

(***************************************************************************)
(* Construction.                                                           *)
(***************************************************************************)
Construct(op, kind, level, name, stfields) ==
    /\ Len(heap) < MaxLoggers
    /\ heap' = Append(heap, NewInstance(kind, CoerceLevel(level)))
    /\ cfg' = newGlobal(cfg, name, stfields)
    /\ Default' = newDefault(cfg, stfields, Len(heap) + 1, Default)
    /\ last' = [NoLast EXCEPT !.op = op, !.level = level, !.args = stfields,
                              !.ret = Len(heap) + 1]
    /\ stdW' = <<>>
    /\ errW' = <<>>
    /\ UNCHANGED <<ctxs, pc, loc>>

NewLogger(level, name, stfields) == Construct("NewLogger", "json", level, name, stfields)

NewDevLogger(level, name, stfields) ==
    Construct("NewDevLogger", "console", level, name, stfields)

\* func Set(l *Logger)
Set(l) ==
    /\ Default' = l
    /\ last' = [NoLast EXCEPT !.op = "Set", !.l = l]
    /\ stdW' = <<>>
    /\ errW' = <<>>
    /\ UNCHANGED <<cfg, heap, ctxs, pc, loc>>

\* func (l *Logger) Set() *Logger
LSet(l) ==
    /\ Default' = l
    /\ last' = [NoLast EXCEPT !.op = "Logger.Set", !.l = l, !.ret = l]
    /\ stdW' = <<>>
    /\ errW' = <<>>
    /\ UNCHANGED <<cfg, heap, ctxs, pc, loc>>

(***************************************************************************)
(* The severity methods.  A record is what one le.Msg hands to a writer.   *)
(***************************************************************************)
\* appendKeyValues(le, l.dynafields, fields); le.Msg(message)
Record(c, lg, message, fields, err) ==
    [level |-> IF err = <<>> THEN "info" ELSE "error",
     name |-> NameOf(c),
     fields |-> appendKeyValues(c, lg.dynafields, fields),
     err |-> IF err = <<>> THEN NIL ELSE err[1],
     message |-> message]

\* le := l.StdLog.Info(); ...; le.Msg(message)
stdEvent(c, lg, message, fields) ==
    IF ZEnabled(lg.StdLog, ZInfo) THEN <<Record(c, lg, message, fields, <<>>)>> ELSE <<>>

gate_inverted(level, severity) == level < severity

\* if l.Level > Debug { return }  (and likewise for Info and Warn)
gate(level, severity) == level > severity

debugf(c, lg, message, fields) ==
    IF gate(lg.Level, Debug) THEN <<>> ELSE stdEvent(c, lg, message, fields)

infof_atWarn(c, lg, message, fields) ==
    IF gate(lg.Level, Warn) THEN <<>> ELSE stdEvent(c, lg, message, fields)

infof(c, lg, message, fields) ==
    IF gate(lg.Level, Info) THEN <<>> ELSE stdEvent(c, lg, message, fields)

warnf(c, lg, message, fields) ==
    IF gate(lg.Level, Warn) THEN <<>> ELSE stdEvent(c, lg, message, fields)

\* le := l.ErrLog.Error(); appendKeyValues(...); le.Err(err); le.Msg(message)
errorf(c, lg, err, message, fields) ==
    IF ZEnabled(lg.ErrLog, ZError) THEN <<Record(c, lg, message, fields, <<err>>)>> ELSE <<>>

\* The call that ran just before, when it set the dynamic fields of l:
\* kept with a logging call, which is then "the next record" after it.
PrevDyna(l) ==
    IF last.op \in {"SetDyna", "AddDyna", "ResetDyna"} /\ last.l = l
    THEN <<last.op, last.args>>
    ELSE <<>>

Wrote(op, l, meta, err, std, errs) ==
    /\ stdW' = std
    /\ errW' = errs
    /\ last' = [NoLast EXCEPT !.op = op, !.l = l, !.args = meta, !.err = err,
                              !.prev = PrevDyna(l)]
    /\ UNCHANGED <<cfg, heap, Default, ctxs, pc, loc>>

\* func (l Logger) Debug(meta ...interface{})
LDebug(l, meta) ==
    Wrote("Debug", l, meta, NIL,
          IF Len(meta) > 0 THEN debugf(cfg, heap[l], stringify(meta[1]), Tail(meta)) ELSE <<>>,
          <<>>)

\* func (l Logger) Info(meta ...interface{})
LInfo(l, meta) ==
    Wrote("Info", l, meta, NIL,
          IF Len(meta) > 0 THEN infof(cfg, heap[l], stringify(meta[1]), Tail(meta)) ELSE <<>>,
          <<>>)

\* func (l Logger) Warn(meta ...interface{})
LWarn(l, meta) ==
    Wrote("Warn", l, meta, NIL,
          IF Len(meta) > 0 THEN warnf(cfg, heap[l], stringify(meta[1]), Tail(meta)) ELSE <<>>,
          <<>>)

\* func (l Logger) Error(err error, meta ...interface{})
LError(l, err, meta) ==
    Wrote("Error", l, meta, err, <<>>,
          IF Len(meta) > 0
          THEN errorf(cfg, heap[l], err, stringify(meta[1]), Tail(meta))
          ELSE errorf(cfg, heap[l], err, <<>>, <<>>))

(***************************************************************************)
(* UpdateLogLevel.  The receiver is a Logger value: the method works on a  *)
(* copy of the instance, and the copy is dropped when it returns.          *)
(***************************************************************************)
\* l.Level = current; if level < Disabled || level > Error { l.Level = level; ... }
UpdatedCopy(lg, level) ==
    IF level < Disabled \/ level > Error
    THEN [lg EXCEPT !.Level = level,
                    !.StdLog = setLogLevel(@, level),
                    !.ErrLog = setLogLevel(@, level)]
    ELSE [lg EXCEPT !.Level = Error]

\* func (l Logger) ...: assignments to l's fields stay in the copy.
ValueReceiver(h, l, copy) == h

UpdateLogLevel(l, level) ==
    /\ stdW' = infof(cfg, heap[l], stringify(S("Log level updated")),
                     <<S(""), S("log level"), I(level)>>)
    /\ errW' = <<>>
    /\ heap' = ValueReceiver(heap, l, UpdatedCopy(heap[l], level))
    /\ last' = [NoLast EXCEPT !.op = "UpdateLogLevel", !.l = l, !.level = level]
    /\ UNCHANGED <<cfg, Default, ctxs, pc, loc>>

(***************************************************************************)
(* Dynamic fields (pointer receivers).                                     *)
(***************************************************************************)
withDyna_shared(h, l, d) == [i \in DOMAIN h |-> [h[i] EXCEPT !.dynafields = d]]

\* l.dynafields = ...
withDyna(h, l, d) == [h EXCEPT ![l].dynafields = d]

Mutated(op, l, args, h) ==
    /\ heap' = h
    /\ last' = [NoLast EXCEPT !.op = op, !.l = l, !.args = args]
    /\ stdW' = <<>>
    /\ errW' = <<>>
    /\ UNCHANGED <<cfg, Default, ctxs, pc, loc>>

\* l.dynafields = make([]interface{}, 2); l.dynafields = append(l.dynafields, dynafields...)
SetDyna(l, dynafields) ==
    Mutated("SetDyna", l, dynafields, withDyna(heap, l, <<NIL, NIL>> \o dynafields))

\* l.dynafields = append(l.dynafields, []interface{}{key, value})
AddDyna(l, key, value) ==
    /\ Cardinality({i \in DOMAIN heap[l].dynafields : heap[l].dynafields[i][1] = "slice"}) < MaxAdd
    /\ Mutated("AddDyna", l, <<key, value>>,
               withDyna(heap, l, Append(heap[l].dynafields, Slice(<<key, value>>))))

\* l.dynafields = make([]interface{}, 2)
ResetDyna(l) == Mutated("ResetDyna", l, <<>>, withDyna(heap, l, <<NIL, NIL>>))

(***************************************************************************)
(* The context binder.                                                     *)
(***************************************************************************)
\* ctx.Value(loggerCtxKey)
CtxValue(c) == IF c = 0 THEN NoValue ELSE ctxs[c].val

\* ctx.Value(loggerCtxKey).(Logger): FromCtx asserts a Logger value.
IsLoggerValue(v) == v.type = "Logger"

IsLoggerPointer_value(v) == v.type = "Logger"

\* ctx.Value(loggerCtxKey).(*Logger): CtxLogger asserts a *Logger.
IsLoggerPointer(v) == v.type = "*Logger"

FromCtxInstance_default(c) == heap[Default]

\* The instance FromCtx returns a pointer to: a fresh NewLogger(cfg.level,
\* cfg.name), or a copy (&l) of the Logger value found.
FromCtxInstance(c) ==
    IF IsLoggerValue(CtxValue(c))
    THEN heap[CtxValue(c).ref]
    ELSE NewInstance("json", CoerceLevel(cfg.level))

\* func FromCtx(ctx context.Context) (log *Logger, fresh bool)
FromCtx(c) ==
    /\ Len(heap) < MaxLoggers
    /\ heap' = Append(heap, FromCtxInstance(c))
    /\ last' = [NoLast EXCEPT !.op = "FromCtx", !.ctx = c, !.ret = Len(heap) + 1,
                              !.fresh = ~IsLoggerValue(CtxValue(c))]
    /\ stdW' = <<>>
    /\ errW' = <<>>
    /\ UNCHANGED <<cfg, Default, ctxs, pc, loc>>

\* func InCtx(ctx context.Context, fields ...string) context.Context
InCtx(c, fields) ==
    /\ Len(heap) < MaxLoggers
    /\ Len(ctxs) < MaxCtx
    /\ LET l == Len(heap) + 1
           h == Append(heap, FromCtxInstance(c))
       IN /\ heap' = IF Len(fields) > 0
                     THEN withDyna(h, l, <<NIL, NIL>> \o <<Slice(fields)>>)
                     ELSE h
          /\ ctxs' = Append(ctxs, [parent |-> c, val |-> PtrValue(l), fields |-> fields])
          /\ last' = [NoLast EXCEPT !.op = "InCtx", !.ctx = c, !.args = fields,
                                    !.l = l, !.ret = Len(ctxs) + 1]
    /\ stdW' = <<>>
    /\ errW' = <<>>
    /\ UNCHANGED <<cfg, Default, pc, loc>>

\* func CtxLogger(ctx context.Context) (logger *Logger, ok bool)
CtxLogger(c) ==
    /\ last' = [NoLast EXCEPT !.op = "CtxLogger", !.ctx = c,
                              !.ret = IF IsLoggerPointer(CtxValue(c)) THEN CtxValue(c).ref ELSE 0,
                              !.ok = IsLoggerPointer(CtxValue(c))]
    /\ stdW' = <<>>
    /\ errW' = <<>>
    /\ UNCHANGED <<cfg, heap, Default, ctxs, pc, loc>>

(***************************************************************************)
(* Goroutines inside NewLogger, one statement at a time.                   *)
(***************************************************************************)
Step(t, to) == pc' = [pc EXCEPT ![t] = to]

\* NewLogger lines 38-52: the instance is built.
TCall(t, name, stfields) ==
    /\ pc[t] = "idle"
    /\ heap' = Append(heap, NewInstance("json", CoerceLevel(Info)))
    /\ loc' = [loc EXCEPT ![t] = [NoLoc EXCEPT !.name = name, !.st = stfields,
                                               !.l = Len(heap) + 1]]
    /\ Step(t, "L54")
    /\ UNCHANGED <<cfg, Default, ctxs, last, stdW, errW>>

\* if len(stfields) > 1 && !cfg.configured
TL54(t) ==
    /\ pc[t] = "L54"
    /\ Step(t, IF Len(loc[t].st) > 1 /\ ~cfg.configured THEN "S50" ELSE "done")
    /\ UNCHANGED <<cfg, heap, Default, ctxs, last, stdW, errW, loc>>

\* setup: if cfg.configured { return }
TS50(t) ==
    /\ pc[t] = "S50"
    /\ Step(t, IF cfg.configured THEN "L56" ELSE "S53")
    /\ UNCHANGED <<cfg, heap, Default, ctxs, last, stdW, errW, loc>>

\* cfg.name = name
TS53(t) ==
    /\ pc[t] = "S53"
    /\ cfg' = [cfg EXCEPT !.name = loc[t].name]
    /\ loc' = [loc EXCEPT ![t].wrote = TRUE]
    /\ Step(t, "S54r")
    /\ UNCHANGED <<heap, Default, ctxs, last, stdW, errW>>

\* append(cfg.stfields, stfields...): the read of cfg.stfields
TS54r(t) ==
    /\ pc[t] = "S54r"
    /\ loc' = [loc EXCEPT ![t].rd = cfg.stfields]
    /\ Step(t, "S54w")
    /\ UNCHANGED <<cfg, heap, Default, ctxs, last, stdW, errW>>

\* cfg.stfields = ...: the write of the appended slice
TS54w(t) ==
    /\ pc[t] = "S54w"
    /\ cfg' = [cfg EXCEPT !.stfields = loc[t].rd \o loc[t].st]
    /\ Step(t, "S55")
    /\ UNCHANGED <<heap, Default, ctxs, last, stdW, errW, loc>>

\* cfg.configured = true
TS55(t) ==
    /\ pc[t] = "S55"
    /\ cfg' = [cfg EXCEPT !.configured = TRUE]
    /\ Step(t, "L56")
    /\ UNCHANGED <<heap, Default, ctxs, last, stdW, errW, loc>>

\* Default = l; return l
TL56(t) ==
    /\ pc[t] = "L56"
    /\ Default' = loc[t].l
    /\ Step(t, "done")
    /\ UNCHANGED <<cfg, heap, ctxs, last, stdW, errW, loc>>

(***************************************************************************)
(* Inputs.                                                                 *)
(***************************************************************************)
Loggers == 1..Len(heap)
Ctxs == 0..Len(ctxs)
LevelInputs == (0 - BelowRange)..AboveRange
Names == {"svc", "app"}
StArgs == {<<>>, <<S("k")>>, <<S("k"), S("v2")>>, <<S("j"), S("v4")>>}
Metas == {<<>>, <<S("m")>>, <<S("m"), S("k"), S("v3")>>}
Errs == {NIL, E("boom")}
DynaArgs == {<<S("k"), S("v1")>>, <<S("k"), S("v1"), I(1), S("v6")>>}
CtxFields == {<<>>, <<S("a"), S("b")>>}

(***************************************************************************)
(* Spec: construction and the package default, one call at a time.         *)
(***************************************************************************)
Next ==
    \/ \E lv \in LevelInputs, nm \in Names, st \in StArgs : NewLogger(lv, nm, st)
    \/ \E lv \in LevelInputs, nm \in Names, st \in StArgs : NewDevLogger(lv, nm, st)
    \/ \E l \in Loggers : Set(l)
    \/ \E l \in Loggers : LSet(l)

Spec == Init /\ [][Next]_vars

(***************************************************************************)
(* SpecConc: goroutines racing through NewLogger.                          *)
(***************************************************************************)
NextConc ==
    \E t \in Threads :
        \/ \E nm \in Names, st \in StArgs : TCall(t, nm, st)
        \/ TL54(t)
        \/ TS50(t)
        \/ TS53(t)
        \/ TS54r(t)
        \/ TS54w(t)
        \/ TS55(t)
        \/ TL56(t)

SpecConc == Init /\ [][NextConc]_vars

(***************************************************************************)
(* SpecGate: loggers of every level, and the severity methods.             *)
(***************************************************************************)
NextGate ==
    \/ \E lv \in LevelInputs : NewLogger(lv, "svc", <<>>)
    \/ \E l \in Loggers, meta \in Metas : LDebug(l, meta)
    \/ \E l \in Loggers, meta \in Metas : LInfo(l, meta)
    \/ \E l \in Loggers, meta \in Metas : LWarn(l, meta)
    \/ \E l \in Loggers, err \in Errs, meta \in Metas : LError(l, err, meta)
    \/ \E l \in Loggers, lv \in LevelInputs : UpdateLogLevel(l, lv)

SpecGate == Init /\ [][NextGate]_vars

(***************************************************************************)
(* SpecDyna: dynamic fields of several instances, and what they compose.   *)
(***************************************************************************)
NextDyna ==
    \/ \E nm \in {"", "svc"}, st \in {<<>>, <<S("k"), S("v2")>>} :
          Len(heap) < MaxDynaLoggers /\ NewLogger(Info, nm, st)
    \/ \E l \in Loggers, d \in DynaArgs : SetDyna(l, d)
    \/ \E l \in Loggers : AddDyna(l, S("j"), S("v5"))
    \/ \E l \in Loggers : ResetDyna(l)
    \/ \E l \in Loggers, meta \in Metas : LInfo(l, meta)
    \/ \E l \in Loggers, meta \in Metas : LError(l, E("boom"), meta)

SpecDyna == Init /\ [][NextDyna]_vars

(***************************************************************************)
(* SpecCtx: binding loggers to contexts and looking them up.               *)
(***************************************************************************)
NextCtx ==
    \/ \E c \in Ctxs, fields \in CtxFields : InCtx(c, fields)
    \/ \E c \in Ctxs : FromCtx(c)
    \/ \E c \in Ctxs : CtxLogger(c)
    \/ \E l \in Loggers, d \in DynaArgs : SetDyna(l, d)
    \/ \E l \in Loggers, meta \in Metas : LInfo(l, meta)

SpecCtx == Init /\ [][NextCtx]_vars

(***************************************************************************)
(* SpecCompose: the composer on every message-field list, null entries     *)
(* included, with no static and no dynamic fields.                         *)
(***************************************************************************)
FieldVals == {NIL, S("k"), S("v"), I(1)}

RECURSIVE FieldLists(_)
FieldLists(n) ==
    IF n = 0 THEN {<<>>}
    ELSE FieldLists(n - 1) \cup
         {Append(f, v) : f \in {g \in FieldLists(n - 1) : Len(g) = n - 1}, v \in FieldVals}

NextCompose ==
    \/ \E f \in FieldLists(MaxFields) : LInfo(Default, <<S("m")>> \o f)
    \/ \E f \in FieldLists(MaxFields) : LError(Default, E("boom"), <<S("m")>> \o f)

SpecCompose == Init /\ [][NextCompose]_vars

(***************************************************************************)
(* Helpers of the statements below.                                        *)
(***************************************************************************)
Constructors == {"NewLogger", "NewDevLogger"}
NormalMethods == {"Debug", "Info", "Warn"}
DynaMethods == {"SetDyna", "AddDyna", "ResetDyna"}

Severity(op) ==
    CASE op = "Debug" -> Debug [] op = "Info" -> Info [] op = "Warn" -> Warn

\* The pairs of a list as the specification reads it: positions (1,2),
\* (3,4), ..., a pair kept when key and value are both non-null.
RECURSIVE PairsOf(_)
PairsOf(list) ==
    IF Len(list) < 2 THEN EmptyMap
    ELSE LET rest == PairsOf(SubSeq(list, 3, Len(list)))
         IN IF list[1] # NIL /\ list[2] # NIL /\ stringify(list[1]) \notin DOMAIN rest
            THEN Put(rest, stringify(list[1]), list[2])
            ELSE rest

Records == {stdW[i] : i \in DOMAIN stdW} \cup {errW[i] : i \in DOMAIN errW}

(***************************************************************************)
(* C1.  Write-once global configuration: once a construction call has set  *)
(* configured, no later NewLogger/NewDevLogger call, whatever name and     *)
(* static fields it supplies, changes the global name or the global static *)
(* fields, and configured never returns to false.                          *)
(***************************************************************************)
C1_WriteOnce ==
    [][cfg.configured =>
          /\ cfg'.configured
          /\ cfg'.name = cfg.name
          /\ cfg'.stfields = cfg.stfields]_vars

\* A qualifying call with other static fields has run on a configured package.
C1_Witness ==
    /\ cfg.configured
    /\ last.op \in Constructors
    /\ Len(last.args) > 1
    /\ last.args # cfg.stfields

(***************************************************************************)
(* C2.  Concurrent first use: when the goroutines have all returned from   *)
(* their construction calls and at least one call qualified, exactly one   *)
(* of them wrote the global config, and the global name and static fields  *)
(* are the ones that caller supplied (no mix, no concatenation).           *)
(***************************************************************************)
C2_SingleInitializer ==
    ((\A t \in Threads : pc[t] = "done") /\ (\E t \in Threads : Len(loc[t].st) > 1)) =>
        \E t \in Threads :
            /\ loc[t].wrote
            /\ cfg.name = loc[t].name
            /\ cfg.stfields = loc[t].st
            /\ \A u \in Threads \ {t} : ~loc[u].wrote

(***************************************************************************)
(* C3.  Severity gate: a Debug, Info or Warn call with at least one        *)
(* argument on a logger whose threshold T is Debug, Info, Warn or Error    *)
(* invokes the normal-sink writer exactly once if the method's severity is *)
(* at least T, and not at all otherwise; it never writes to the error sink.*)
(***************************************************************************)
C3_SeverityGate ==
    (/\ last.op \in NormalMethods
     /\ Len(last.args) > 0
     /\ heap[last.l].Level \in {Debug, Info, Warn, Error}) =>
        /\ errW = <<>>
        /\ Len(stdW) = IF Severity(last.op) >= heap[last.l].Level THEN 1 ELSE 0

\* Warn(...) on a logger built with Warn has reached the writer.
C3_Witness ==
    /\ last.op = "Warn"
    /\ Len(last.args) > 0
    /\ heap[last.l].Level = Warn
    /\ Len(stdW) = 1

(***************************************************************************)
(* C4.  Disabled threshold: a logger whose level is Disabled produces no   *)
(* writer invocation for any Debug, Info or Warn call.                     *)
(***************************************************************************)
C4_DisabledIsSilent ==
    (last.op \in NormalMethods /\ heap[last.l].Level = Disabled) =>
        stdW = <<>> /\ errW = <<>>

(***************************************************************************)
(* C5.  Error bypass: whatever the logger's level and the argument list,   *)
(* one Error(err, ...) call produces exactly one writer invocation, on the *)
(* error sink and none on the normal sink, and the record carries err.     *)
(***************************************************************************)
C5_ErrorBypass ==
    last.op = "Error" =>
        /\ stdW = <<>>
        /\ Len(errW) = 1
        /\ errW[1].level = "error"
        /\ errW[1].err = last.err

\* Error(err) with no message on a Disabled logger has written its record.
C5_Witness ==
    /\ last.op = "Error"
    /\ heap[last.l].Level = Disabled
    /\ last.args = <<>>
    /\ last.err # NIL
    /\ Len(errW) = 1
    /\ errW[1].err = last.err

(***************************************************************************)
(* C6.  Field precedence: in every emitted record, a key that appears in   *)
(* more than one of the static fields, the instance's dynamic fields and   *)
(* the call's message fields carries the static value if it is a static    *)
(* key, otherwise the dynamic value.                                       *)
(***************************************************************************)
C6_Precedence ==
    (last.op \in NormalMethods \cup {"Error"} /\ Len(last.args) > 0) =>
        LET st == PairsOf(cfg.stfields)
            dy == PairsOf(heap[last.l].dynafields)
            ms == PairsOf(Tail(last.args))
        IN \A r \in Records :
            /\ \A k \in DOMAIN st \cap (DOMAIN dy \cup DOMAIN ms) :
                  k \in DOMAIN r.fields /\ r.fields[k] = st[k]
            /\ \A k \in (DOMAIN dy \cap DOMAIN ms) \ DOMAIN st :
                  k \in DOMAIN r.fields /\ r.fields[k] = dy[k]

(***************************************************************************)
(* C7.  Level update: after UpdateLogLevel(n) the instance's recorded      *)
(* level is n if n lies in [-1,3], and its previous level otherwise.       *)
(***************************************************************************)
C7_LevelUpdated ==
    [][last'.op = "UpdateLogLevel" =>
          heap'[last'.l].Level =
              IF last'.level \in (-1)..3 THEN last'.level ELSE heap[last'.l].Level]_vars

(***************************************************************************)
(* C8.  Context round trip: FromCtx on a context returned by               *)
(* InCtx(ctx, "a", "b") reports the logger as found (not fresh) and        *)
(* returns the logger that was bound, whose dynamic fields are {a: b}.     *)
(***************************************************************************)
C8_RoundTrip ==
    (/\ last.op = "FromCtx"
     /\ last.ctx > 0
     /\ ctxs[last.ctx].fields = <<S("a"), S("b")>>) =>
        /\ ~last.fresh
        /\ last.ret = ctxs[last.ctx].val.ref
        /\ PairsOf(heap[last.ret].dynafields) = Put(EmptyMap, <<"a">>, S("b"))

(***************************************************************************)
(* C9.  Dynamic-field isolation: a SetDyna, AddDyna or ResetDyna on one    *)
(* instance leaves the dynamic fields of every other instance, and the     *)
(* global configuration, unchanged.                                        *)
(***************************************************************************)
C9_DynaIsolation ==
    [][last'.op \in DynaMethods =>
          /\ cfg' = cfg
          /\ DOMAIN heap' = DOMAIN heap
          /\ \A i \in DOMAIN heap :
                i # last'.l => heap'[i].dynafields = heap[i].dynafields]_vars

\* SetDyna has run on one instance while another holds other dynamic fields.
C9_Witness ==
    /\ last.op = "SetDyna"
    /\ cfg.configured
    /\ \E i \in DOMAIN heap :
          /\ i # last.l
          /\ heap[i].dynafields # <<>>
          /\ heap[i].dynafields # heap[last.l].dynafields

(***************************************************************************)
(* C10.  Construction level coercion: the levels are Disabled = -1,        *)
(* Debug = 0, Info = 1, Warn = 2, Error = 3, and a constructor returns a   *)
(* logger whose level is the given one when it lies in [-1,3] and Info     *)
(* otherwise.                                                              *)
(***************************************************************************)
C10_LevelCoercion ==
    last.op \in Constructors =>
        /\ <<Disabled, Debug, Info, Warn, Error>> = <<-1, 0, 1, 2, 3>>
        /\ heap[last.ret].Level = IF last.level \in (-1)..3 THEN last.level ELSE Info

LogMethods == NormalMethods \cup {"Error"}

(***************************************************************************)
(* C11.  Message-field composition: with no static and no dynamic fields,  *)
(* the composed mapping holds exactly the pairs at positions (0,1), (2,3), *)
(* ... of the message fields whose key and value are both non-null, keys   *)
(* stringified; a dropped pair does not shift the pairs after it.          *)
(***************************************************************************)
C11_MessageFields ==
    (/\ last.op \in LogMethods
     /\ Len(last.args) > 0
     /\ cfg.stfields = <<>>
     /\ heap[last.l].dynafields = <<>>) =>
        \A r \in Records : r.fields = PairsOf(Tail(last.args))

(***************************************************************************)
(* C12.  Static and dynamic fields are always attached: every record       *)
(* emitted by Debug, Info, Warn or Error holds every well-formed static    *)
(* pair and every well-formed dynamic pair of the instance (the static     *)
(* value where both name the key), whatever the message fields.            *)
(***************************************************************************)
C12_AlwaysAttached ==
    last.op \in LogMethods =>
        LET st == PairsOf(cfg.stfields)
            dy == PairsOf(heap[last.l].dynafields)
        IN \A r \in Records :
            /\ \A k \in DOMAIN st : k \in DOMAIN r.fields /\ r.fields[k] = st[k]
            /\ \A k \in DOMAIN dy \ DOMAIN st : k \in DOMAIN r.fields /\ r.fields[k] = dy[k]

\* The fields of a record that come neither from the call's message fields
\* nor from the static fields.
DynaPart(r) ==
    LET other == DOMAIN PairsOf(cfg.stfields) \cup DOMAIN PairsOf(Tail(last.args))
    IN [k \in DOMAIN r.fields \ other |-> r.fields[k]]

(***************************************************************************)
(* C13.  SetDyna replaces and ResetDyna clears: the record an instance     *)
(* composes right after SetDyna(k1, v1, ..., kn, vn) carries, besides the  *)
(* static and the message fields, exactly k1..kn with v1..vn; right after  *)
(* ResetDyna() it carries no dynamic key.                                  *)
(***************************************************************************)
C13_SetReplacesResetClears ==
    (last.op \in LogMethods /\ Len(last.args) > 0 /\ last.prev # <<>>) =>
        LET set == PairsOf(last.prev[2])
            other == DOMAIN PairsOf(cfg.stfields) \cup DOMAIN PairsOf(Tail(last.args))
        IN \A r \in Records :
            /\ last.prev[1] = "SetDyna" =>
                  DynaPart(r) = [k \in DOMAIN set \ other |-> set[k]]
            /\ last.prev[1] = "ResetDyna" => DynaPart(r) = EmptyMap

\* The same statement for the calls that pass two or more message-field
\* arguments: it holds, so C13 fails only where the composer skips the
\* dynamic fields (C12).
C13_WithMessageFields ==
    Len(last.args) > 2 => C13_SetReplacesResetClears

(***************************************************************************)
(* C14.  AddDyna appends one pair: the record an instance composes right   *)
(* after AddDyna(key, value), key and value non-null, carries the field    *)
(* stringify(key) = value.  Stated for the calls that pass two or more     *)
(* message-field arguments, the calls in which the composer reads the      *)
(* dynamic fields at all.                                                  *)
(***************************************************************************)
C14_AddAppendsPair ==
    (/\ last.op \in LogMethods
     /\ Len(last.args) > 2
     /\ last.prev # <<>>
     /\ last.prev[1] = "AddDyna"
     /\ stringify(last.prev[2][1]) \notin
            DOMAIN PairsOf(cfg.stfields) \cup DOMAIN PairsOf(Tail(last.args))) =>
        \A r \in Records :
            /\ stringify(last.prev[2][1]) \in DOMAIN r.fields
            /\ r.fields[stringify(last.prev[2][1])] = last.prev[2][2]

(***************************************************************************)
(* C15.  Lookup never fails (as stated): on a context in which no logger   *)
(* was ever bound, FromCtx and CtxLogger both return a non-null logger     *)
(* and report it as not found.                                             *)
(***************************************************************************)
C15_LookupNeverFails ==
    (last.op \in {"FromCtx", "CtxLogger"} /\ CtxValue(last.ctx) = NoValue) =>
        /\ last.ret # 0
        /\ last.ret \in DOMAIN heap
        /\ last.op = "FromCtx" => last.fresh
        /\ last.op = "CtxLogger" => ~last.ok

(***************************************************************************)
(* C15, amended.  On a context in which no logger was ever bound, FromCtx  *)
(* returns a newly constructed logger, built as NewLogger(cfg.level,       *)
(* cfg.name) builds it, and reports it as fresh (not found); CtxLogger     *)
(* reports ok = false and returns a nil logger.                            *)
(***************************************************************************)
C15_LookupOnEmptyContext ==
    [][/\ (last'.op = "FromCtx" /\ CtxValue(last'.ctx) = NoValue) =>
             /\ last'.fresh
             /\ last'.ret \notin DOMAIN heap
             /\ last'.ret \in DOMAIN heap'
             /\ heap'[last'.ret] = NewInstance("json", CoerceLevel(cfg.level))
             /\ \A i \in DOMAIN heap : heap'[i] = heap[i]
       /\ (last'.op = "CtxLogger" /\ CtxValue(last'.ctx) = NoValue) =>
             /\ ~last'.ok
             /\ last'.ret = 0
             /\ heap' = heap]_vars

\* CtxLogger has run on the empty context after loggers were built for it.
C15_Witness ==
    /\ last.op = "CtxLogger"
    /\ last.ctx = 0
    /\ last.ret = 0
    /\ Len(heap) > 1

(***************************************************************************)
(* C16.  Level-change audit record: UpdateLogLevel(n) hands the record     *)
(* "Log level updated", at Info severity, to the normal sink exactly once  *)
(* if the level of the instance before the call is Info or lower, and      *)
(* writes nothing if it is Warn or Error; the error sink is not written.   *)
(***************************************************************************)
C16_AuditRecord ==
    [][last'.op = "UpdateLogLevel" =>
          /\ errW' = <<>>
          /\ Len(stdW') = IF heap[last'.l].Level <= Info THEN 1 ELSE 0
          /\ \A i \in DOMAIN stdW' :
                /\ stdW'[i].level = "info"
                /\ stdW'[i].message = <<"Log level updated">>]_vars

\* An update to Error on an instance at Info has written its audit record.
C16_Witness ==
    /\ last.op = "UpdateLogLevel"
    /\ last.level = Error
    /\ heap[last.l].Level = Info
    /\ Len(stdW) = 1

(***************************************************************************)
(* C17.  Binding reuses the logger already in the context: InCtx on a      *)
(* context that carries logger L returns a context that carries L, builds  *)
(* no logger, and leaves the dynamic fields of L unchanged when no field   *)
(* is passed, or replaces them by the fields passed.                       *)
(***************************************************************************)
C17_BindingReusesLogger ==
    [][(last'.op = "InCtx" /\ CtxValue(last'.ctx) # NoValue) =>
          LET L == CtxValue(last'.ctx).ref
          IN /\ ctxs'[last'.ret].val = PtrValue(L)
             /\ Len(heap') = Len(heap)
             /\ PairsOf(heap'[L].dynafields) =
                   IF last'.args = <<>>
                   THEN PairsOf(heap[L].dynafields)
                   ELSE PairsOf(last'.args)]_vars

(***************************************************************************)
(* C18.  Non-qualifying constructions leave global state alone: a          *)
(* NewLogger/NewDevLogger call with fewer than two static-field arguments  *)
(* changes neither the global name, the global static fields, the          *)
(* configured flag (nor any other field of the config), nor Default.       *)
(***************************************************************************)
C18_NonQualifyingFrame ==
    [][(last'.op \in Constructors /\ Len(last'.args) < 2) =>
          /\ cfg' = cfg
          /\ Default' = Default]_vars

\* A call with one static-field argument has run on an unconfigured package.
C18_Witness ==
    /\ last.op \in Constructors
    /\ Len(last.args) = 1
    /\ ~cfg.configured
    /\ Default # last.ret

(***************************************************************************)
(* C19.  The first qualifying construction call (two or more static-field  *)
(* arguments on an unconfigured package) makes the logger it returns the   *)
(* package Default; every other construction call leaves Default alone,    *)
(* and once the package is configured Default changes only through Set(l)  *)
(* or l.Set().                                                             *)
(***************************************************************************)
C19_DefaultReplacedOnce ==
    [][/\ last'.op \in Constructors =>
             /\ last'.ret = Len(heap) + 1
             /\ Default' = IF Len(last'.args) > 1 /\ ~cfg.configured
                           THEN last'.ret
                           ELSE Default
       /\ (cfg.configured /\ Default' # Default) =>
             last'.op \in {"Set", "Logger.Set"}]_vars

\* A later qualifying call has returned a logger that is not the Default.
C19_Witness ==
    /\ last.op \in Constructors
    /\ Len(last.args) > 1
    /\ cfg.configured
    /\ cfg.stfields # last.args
    /\ Default # last.ret
    /\ Default # 1

(***************************************************************************)
(* C20.  CtxLogger is the inverse of binding: on a context returned by     *)
(* InCtx it reports ok = true and returns the very instance InCtx stored   *)
(* (the one that carries the fields InCtx set, unless SetDyna replaced     *)
(* them since); on a context with no bound logger it reports ok = false.   *)
(***************************************************************************)
C20_PointerLookup ==
    /\ \A c \in DOMAIN ctxs : ctxs[c].val.ref \in DOMAIN heap
    /\ last.op = "InCtx" =>
          /\ ctxs[last.ret].val.ref = last.l
          /\ last.args # <<>> =>
                heap[last.l].dynafields = <<NIL, NIL, Slice(last.args)>>
    /\ last.op = "CtxLogger" =>
          IF CtxValue(last.ctx) = NoValue
          THEN ~last.ok
          ELSE last.ok /\ last.ret = ctxs[last.ctx].val.ref

\* CtxLogger has found the logger of a context bound with fields, after a
\* SetDyna on that logger.
C20_Witness ==
    /\ last.op = "CtxLogger"
    /\ last.ctx > 0
    /\ last.ok
    /\ ctxs[last.ctx].fields # <<>>
    /\ PairsOf(heap[last.ret].dynafields) # EmptyMap

====
